---- MODULE Spec2Model ----
(***************************************************************************)
(* A model of the ETW process-creation tracer: the session lifecycle       *)
(* (Controller, Consumer, ETWSession, main), the cooperative cancellation  *)
(* flag SIGINT, the blocking pump with its two callbacks, and the          *)
(* two-phase TDH wrappers.  The operating system is the environment: every *)
(* status, handle and size it returns is a nondeterministic input.         *)
(*                                                                         *)
(* Spec and SpecDocumentedOS run the whole program; SpecProjector starts   *)
(* where the pump has been started and runs on_process_creation over every *)
(* schema and formatter output; SpecDecode applies the name and value      *)
(* decodings to every buffer.                                              *)
(***************************************************************************)
EXTENDS Integers, Sequences, FiniteSets, TLC

\* ------------------------------------------------------------------ bounds
MaxEvents == 2          \* events the OS delivers during one pump call
MaxCheckpoints == 1     \* buffer callbacks the OS makes during one pump call
MaxInterrupts == 2      \* Ctrl-C deliveries
MaxLen == 1             \* largest UserDataLength of an event
MaxProps == 2           \* largest PropertyCount of a schema
MaxBufSize == 1         \* largest size a TDH sizing call reports
MaxNameBytes == 3       \* longest schema buffer handed to the name decoding alone
MaxUnits == 3           \* longest value buffer handed to the value decoding alone

\* ------------------------------------------------------- program constants
HeaderSize == 120       \* mem::size_of::<EVENT_TRACE_PROPERTIES>()
NameBytesWithNul == 17  \* KERNEL_LOGGER_NAMEA "NT Kernel Logger" plus its NUL
AcceptedOpcode == 1     \* [0x1].contains(&Opcode)

SESSION_NAME == "NT Kernel Logger"

\* Handles are opaque: the program only compares them.
InvalidHandle == "INVALID_HANDLE_VALUE"  \* also INVALID_PROCESSTRACE_HANDLE (all ones)
DefaultHandle == "0"    \* CONTROLTRACE_HANDLE::default(), the Consumer's "closed" marker
ValidHandles == {"0x2c"}
AnyHandle == ValidHandles \cup {DefaultHandle, InvalidHandle}

\* ---------------------------------------------------------------- statuses
StartStatuses ==
    {"ERROR_SUCCESS", "ERROR_BAD_LENGTH", "ERROR_INVALID_PARAMETER",
     "ERROR_ALREADY_EXISTS", "ERROR_BAD_PATHNAME", "ERROR_NO_SYSTEM_RESOURCES",
     "ERROR_ACCESS_DENIED", "ERROR_GEN_FAILURE"}

PumpStatuses ==
    {"ERROR_SUCCESS", "ERROR_BAD_LENGTH", "ERROR_INVALID_HANDLE",
     "ERROR_INVALID_TIME", "ERROR_INVALID_PARAMETER", "ERROR_NOACCESS",
     "ERROR_CANCELLED", "ERROR_WMI_INSTANCE_NOT_FOUND", "ERROR_GEN_FAILURE"}

StopStatuses == {"ERROR_SUCCESS", "ERROR_WMI_INSTANCE_NOT_FOUND"}

CloseStatuses == {"ERROR_SUCCESS", "ERROR_INVALID_HANDLE"}

TdhStatuses == {"ERROR_SUCCESS", "ERROR_INSUFFICIENT_BUFFER", "ERROR_NOT_FOUND"}

\* The sizes a sizing call can report with a given status: a size to allocate
\* comes with "buffer too small", zero with anything else.
SizesReported(status) ==
    IF status = "ERROR_INSUFFICIENT_BUFFER" THEN 1..MaxBufSize ELSE {0}

\* A panic message: the text of the panic!/expect and its formatted argument.
Msg(text, arg) == [text |-> text, arg |-> arg]
NoPanic == Msg("", "")

VARIABLES
    os_handles,         \* the handle values the OS hands out on success
    pc,                 \* position of the main thread
    proc,               \* "running", "exited", "aborted" or "killed"
    panic_msg,          \* the main thread's panic, NoPanic when none
    SIGINT,             \* the OnceLock<()>: TRUE once set
    handler_installed,  \* ctrlc::set_handler succeeded
    set_attempts,       \* SIGINT.set(()) calls made by the handler
    ctrlc_messages,     \* "Ctrl-C pressed" lines written by the handler
    controller,         \* the Controller value
    consumer,           \* the Consumer value
    os_calls,           \* lifecycle calls made to the OS, in order
    start_status,       \* what StartTraceA returned, "none" before the call
    pump,               \* ProcessTrace: "idle", "running", "callback", "stopping", "returned"
    pump_status,        \* what ProcessTrace returned, "none" before it returns
    checkpoints,        \* return values of on_termination, in order
    events_delivered,   \* events handed to on_process_creation
    events_after_stop,  \* those handed over after a checkpoint returned 0
    cb_pc,              \* position inside on_process_creation
    cb_panic,           \* the panic raised inside on_process_creation, NoPanic when none
    record,             \* the EVENT_RECORD of the running callback
    trace,              \* the TRACE_EVENT_INFO of the running callback
    prop_index,         \* index of the next top-level property
    userdata,           \* length of the remaining payload slice
    property_info_map,  \* the name -> value map built so far
    projected,          \* the map the last callback handed to ProcessTypeGroup1::from, as <<map>>
    cb_log,             \* the Tdh invocations of the running callback, in order
    tdh_fn,             \* the Tdh function invoked last
    tdh_calls,          \* the OS calls of that invocation, in order
    tdh_result,         \* its Result
    dec                 \* the decoding functions applied to a buffer: input and output

lifecycle_vars ==
    <<os_handles, pc, proc, panic_msg, controller, consumer, os_calls, start_status>>
signal_vars == <<SIGINT, handler_installed, set_attempts, ctrlc_messages>>
pump_vars == <<pump, pump_status, checkpoints, events_delivered, events_after_stop>>
callback_vars ==
    <<cb_pc, cb_panic, record, trace, prop_index, userdata, property_info_map, projected, cb_log>>
tdh_vars == <<tdh_fn, tdh_calls, tdh_result>>
decode_vars == <<dec>>
vars == <<lifecycle_vars, signal_vars, pump_vars, callback_vars, tdh_vars, decode_vars>>

\* ------------------------------------------------------------- controller.rs

\* Mutant of PropertiesBlock: the buffer is sized for the header alone.
PropertiesBlock_HeaderOnly(name_bytes) ==
    [BufferSize |-> HeaderSize,
     LoggerNameOffset |-> HeaderSize,
     LogFileNameOffset |-> 0,
     capacity |-> HeaderSize,
     len |-> HeaderSize,
     spare |-> "uninitialised"]

\* The EVENT_TRACE_PROPERTIES block Controller::new builds: the Vec has the
\* capacity of header plus name and holds the header bytes; the room after
\* them (spare) is left as allocated.
PropertiesBlock(name_bytes) ==
    [BufferSize |-> HeaderSize + name_bytes,
     LoggerNameOffset |-> HeaderSize,
     LogFileNameOffset |-> 0,
     capacity |-> HeaderSize + name_bytes,
     len |-> HeaderSize,
     spare |-> "uninitialised"]

\* StartTraceA copies the session name to LoggerNameOffset of the block.
NameCopied(props, name) == [props EXCEPT !.spare = name]

NoProperties ==
    [BufferSize |-> 0, LoggerNameOffset |-> 0, LogFileNameOffset |-> 0,
     capacity |-> 0, len |-> 0, spare |-> ""]

OsCall(api, handle, name, props, status) ==
    [api |-> api, handle |-> handle, name |-> name, props |-> props, status |-> status]

NoController ==
    [state |-> "none", trace_handle |-> DefaultHandle, session_name |-> "",
     event_prop_buf |-> NoProperties]

NoConsumer == [state |-> "none", reghandle |-> DefaultHandle]

\* Mutant of Controller_start_session: no status is fatal.
Controller_start_session_Lenient(status) == NoPanic

\* Mutant of Controller_start_session: the catch-all arm is missing, so an
\* unmapped status falls through like success.
Controller_start_session_NoCatchAll(status) ==
    CASE status = "ERROR_SUCCESS" -> NoPanic
      [] status = "ERROR_BAD_LENGTH" -> Msg("The Wnode.Buffer size is incorrect", "BufferSize")
      [] status = "ERROR_INVALID_PARAMETER" -> Msg("TraceHandle is null", "properties")
      [] status = "ERROR_ALREADY_EXISTS" -> Msg("session alreay exists", SESSION_NAME)
      [] status = "ERROR_BAD_PATHNAME" -> Msg("This is supposed to be a realtime session", "")
      [] status = "ERROR_NO_SYSTEM_RESOURCES" -> Msg("Not enough system resources", "")
      [] status = "ERROR_ACCESS_DENIED" -> Msg("Only users with administrative privileges can run this!", "")
      [] OTHER -> NoPanic

\* The match on StartTraceA's status: the panic it raises, NoPanic on success.
Controller_start_session(status) ==
    CASE status = "ERROR_SUCCESS" -> NoPanic
      [] status = "ERROR_BAD_LENGTH" -> Msg("The Wnode.Buffer size is incorrect", "BufferSize")
      [] status = "ERROR_INVALID_PARAMETER" -> Msg("TraceHandle is null", "properties")
      [] status = "ERROR_ALREADY_EXISTS" -> Msg("session alreay exists", SESSION_NAME)
      [] status = "ERROR_BAD_PATHNAME" -> Msg("This is supposed to be a realtime session", "")
      [] status = "ERROR_NO_SYSTEM_RESOURCES" -> Msg("Not enough system resources", "")
      [] status = "ERROR_ACCESS_DENIED" -> Msg("Only users with administrative privileges can run this!", "")
      [] OTHER -> Msg("Unspecified Error", status)

\* Controller::new: build the block, start the session, panic or return Self.
ControllerNew(status, h) ==
    /\ proc = "running"
    /\ pc = "controller_new"
    /\ LET props == PropertiesBlock(NameBytesWithNul)
           p == Controller_start_session(status)
       IN /\ os_calls' = Append(os_calls, OsCall("StartTraceA", DefaultHandle, SESSION_NAME, props, status))
          /\ start_status' = status
          /\ IF p = NoPanic
             THEN /\ controller' = [state |-> "live",
                                    trace_handle |-> h,
                                    session_name |-> SESSION_NAME,
                                    event_prop_buf |-> NameCopied(props, SESSION_NAME)]
                  /\ pc' = "consumer_new"
                  /\ UNCHANGED panic_msg
             ELSE /\ panic_msg' = p
                  /\ pc' = "drop"
                  /\ UNCHANGED controller
    /\ UNCHANGED <<os_handles, proc, consumer>>
    /\ UNCHANGED <<signal_vars, pump_vars, callback_vars, tdh_vars>>
    /\ UNCHANGED decode_vars

\* The guard of Drop for Controller: trace_handle != INVALID_HANDLE_VALUE.
Controller_drop_stops(handle) == handle # InvalidHandle

\* Mutant of Controller_drop_result: a failed stop is reported by a panic.
Controller_drop_result_Checked(status) ==
    IF status = "ERROR_SUCCESS" THEN NoPanic ELSE Msg("Could not stop session", status)

\* `let _ = ControlTraceA(..)`: the status is discarded.
Controller_drop_result(status) == NoPanic

\* Drop for Controller.
DropController(status) ==
    /\ proc = "running"
    /\ pc = "drop"
    /\ controller.state = "live"
    /\ controller' = [controller EXCEPT !.state = "dropped"]
    /\ IF Controller_drop_stops(controller.trace_handle)
       THEN /\ os_calls' = Append(os_calls,
                   OsCall("ControlTraceA_STOP", controller.trace_handle,
                          controller.session_name, controller.event_prop_buf, status))
            /\ panic_msg' = IF Controller_drop_result(status) = NoPanic
                            THEN panic_msg ELSE Controller_drop_result(status)
       ELSE /\ status = "ERROR_SUCCESS"
            /\ UNCHANGED <<os_calls, panic_msg>>
    /\ UNCHANGED <<os_handles, pc, proc, consumer, start_status>>
    /\ UNCHANGED <<signal_vars, pump_vars, callback_vars, tdh_vars>>
    /\ UNCHANGED decode_vars

\* --------------------------------------------------------------- consumer.rs

\* Consumer::new: take the current time, open the trace, store what came back.
ConsumerNew(time_ok, h) ==
    /\ proc = "running"
    /\ pc = "consumer_new"
    /\ IF time_ok
       THEN /\ os_calls' = Append(os_calls, OsCall("OpenTraceA", h, SESSION_NAME, NoProperties, "none"))
            /\ consumer' = [state |-> "live", reghandle |-> h]
            /\ pc' = "set_handler"
            /\ UNCHANGED panic_msg
       ELSE /\ h = InvalidHandle
            /\ panic_msg' = Msg("Could not convert system timie to filetime!", "")
            /\ pc' = "drop"
            /\ UNCHANGED <<os_calls, consumer>>
    /\ UNCHANGED <<os_handles, proc, controller, start_status>>
    /\ UNCHANGED <<signal_vars, pump_vars, callback_vars, tdh_vars>>
    /\ UNCHANGED decode_vars

\* Mutant of Consumer_drop_closes: the close is issued whatever the handle.
Consumer_drop_closes_Always(handle) == TRUE

\* The guard of Drop for Consumer: reghandle.Value != 0.
Consumer_drop_closes(handle) == handle # DefaultHandle

\* Mutant of Consumer_drop_result: a failed close is reported by a panic.
Consumer_drop_result_Checked(status) ==
    IF status = "ERROR_SUCCESS" THEN NoPanic ELSE Msg("Could not close trace", status)

\* `let _ = CloseTrace(..)`: the status is discarded.
Consumer_drop_result(status) == NoPanic

\* Drop for Consumer.  Fields drop in declaration order, so the Controller of
\* an ETWSession is dropped first.
DropConsumer(status) ==
    /\ proc = "running"
    /\ pc = "drop"
    /\ controller.state # "live"
    /\ consumer.state = "live"
    /\ consumer' = [consumer EXCEPT !.state = "dropped"]
    /\ IF Consumer_drop_closes(consumer.reghandle)
       THEN /\ os_calls' = Append(os_calls,
                   OsCall("CloseTrace", consumer.reghandle, "", NoProperties, status))
            /\ panic_msg' = IF Consumer_drop_result(status) = NoPanic
                            THEN panic_msg ELSE Consumer_drop_result(status)
       ELSE /\ status = "ERROR_SUCCESS"
            /\ UNCHANGED <<os_calls, panic_msg>>
    /\ UNCHANGED <<os_handles, pc, proc, controller, start_status>>
    /\ UNCHANGED <<signal_vars, pump_vars, callback_vars, tdh_vars>>
    /\ UNCHANGED decode_vars

\* Nothing is left to drop: the process ends (by return or by the panic).
Exit ==
    /\ proc = "running"
    /\ pc = "drop"
    /\ controller.state # "live"
    /\ consumer.state # "live"
    /\ proc' = "exited"
    /\ pc' = "exit"
    /\ UNCHANGED <<os_handles, panic_msg, controller, consumer, os_calls, start_status>>
    /\ UNCHANGED <<signal_vars, pump_vars, callback_vars, tdh_vars>>
    /\ UNCHANGED decode_vars

\* ------------------------------------------------------------------ main.rs

\* ctrlc::set_handler(..).expect(..): the handler is installed or main panics.
SetHandler(ok) ==
    /\ proc = "running"
    /\ pc = "set_handler"
    /\ IF ok
       THEN /\ handler_installed' = TRUE
            /\ pc' = "start_listening"
            /\ UNCHANGED panic_msg
       ELSE /\ panic_msg' = Msg("Could not create ctrlc handler!", "")
            /\ pc' = "drop"
            /\ UNCHANGED handler_installed
    /\ UNCHANGED <<os_handles, proc, controller, consumer, os_calls, start_status>>
    /\ UNCHANGED <<SIGINT, set_attempts, ctrlc_messages>>
    /\ UNCHANGED <<pump_vars, callback_vars, tdh_vars>>
    /\ UNCHANGED decode_vars

\* Mutant of OnceLock_set: the cell is a plain toggle.
OnceLock_set_Toggle(cell) == [value |-> ~cell, ok |-> TRUE]

\* SIGINT.set(()): Ok and set when the cell was empty, Err and untouched otherwise.
OnceLock_set(cell) == [value |-> TRUE, ok |-> ~cell]

\* The closure given to ctrlc::set_handler, run on the handler thread for
\* every interrupt delivered once it is installed.
Interrupt ==
    /\ proc = "running"
    /\ handler_installed
    /\ set_attempts < MaxInterrupts
    /\ set_attempts' = set_attempts + 1
    /\ SIGINT' = OnceLock_set(SIGINT).value
    /\ ctrlc_messages' = IF OnceLock_set(SIGINT).ok THEN ctrlc_messages + 1 ELSE ctrlc_messages
    /\ UNCHANGED handler_installed
    /\ UNCHANGED <<lifecycle_vars, pump_vars, callback_vars, tdh_vars>>
    /\ UNCHANGED decode_vars

\* An interrupt delivered before main installed the handler: the default
\* action ends the process at once.
InterruptDefault ==
    /\ proc = "running"
    /\ ~handler_installed
    /\ pc # "exit"
    /\ proc' = "killed"
    /\ UNCHANGED <<os_handles, pc, panic_msg, controller, consumer, os_calls, start_status>>
    /\ UNCHANGED <<signal_vars, pump_vars, callback_vars, tdh_vars>>
    /\ UNCHANGED decode_vars

\* ------------------------------------------------------- consumer.rs: the pump

\* Mutant of on_termination: the sense of the flag is inverted.
on_termination_Inverted(flag) == IF flag THEN 1 ELSE 0

\* on_termination, the BufferCallback: 1 (continue) while SIGINT is unset.
on_termination(flag) == IF ~flag THEN 1 ELSE 0

\* The match on ProcessTrace's status: the panic it raises, NoPanic on success.
Consumer_start_listening(status) ==
    CASE status = "ERROR_SUCCESS" -> NoPanic
      [] status = "ERROR_BAD_LENGTH" ->
            Msg("HandleCount is not valid or the number of handles is greater than 64.", "")
      [] status = "ERROR_INVALID_HANDLE" ->
            Msg("An element of HandleArray is not a valid event tracing session handle.", "")
      [] status = "ERROR_INVALID_TIME" -> Msg("EndTime is less than StartTime.", "")
      [] status = "ERROR_INVALID_PARAMETER" -> Msg("HandleArray is NULL", "")
      [] status = "ERROR_NOACCESS" ->
            Msg("An exception occurred in one of the callback functions that receives the events.", "")
      [] status = "ERROR_CANCELLED" ->
            Msg("An exception occurred in one of the callback functions that receives the events.", "")
      [] status = "ERROR_WMI_INSTANCE_NOT_FOUND" ->
            Msg("The trace collection session is not running", "")
      [] OTHER -> Msg("Unspecified Error", status)

\* ETWSession::start_session -> Consumer::start_listening: the call of ProcessTrace.
StartListening ==
    /\ proc = "running"
    /\ pc = "start_listening"
    /\ os_calls' = Append(os_calls,
            OsCall("ProcessTrace", consumer.reghandle, "", NoProperties, "none"))
    /\ pump' = "running"
    /\ pc' = "listening"
    /\ UNCHANGED <<os_handles, proc, panic_msg, controller, consumer, start_status>>
    /\ UNCHANGED <<pump_status, checkpoints, events_delivered, events_after_stop>>
    /\ UNCHANGED <<signal_vars, callback_vars, tdh_vars>>
    /\ UNCHANGED decode_vars

\* The pump calls the BufferCallback; a return of 0 makes it stop.
PumpCheckpoint ==
    /\ proc = "running"
    /\ pump = "running"
    /\ consumer.reghandle \in ValidHandles
    /\ Len(checkpoints) < MaxCheckpoints
    /\ checkpoints' = Append(checkpoints, on_termination(SIGINT))
    /\ pump' = IF on_termination(SIGINT) = 0 THEN "stopping" ELSE "running"
    /\ UNCHANGED <<pump_status, events_delivered, events_after_stop>>
    /\ UNCHANGED <<lifecycle_vars, signal_vars, callback_vars, tdh_vars>>
    /\ UNCHANGED decode_vars

\* The statuses ProcessTrace can return from a given state of the pump.
PumpReturnStatuses ==
    IF pump = "stopping" THEN {"ERROR_SUCCESS", "ERROR_CANCELLED"}
    ELSE IF consumer.reghandle \in ValidHandles THEN PumpStatuses \ {"ERROR_CANCELLED"}
    ELSE PumpStatuses \ {"ERROR_SUCCESS", "ERROR_CANCELLED"}

\* ProcessTrace returns to start_listening.
PumpReturn(status) ==
    /\ proc = "running"
    /\ pump \in {"running", "stopping"}
    /\ status \in PumpReturnStatuses
    /\ pump' = "returned"
    /\ pump_status' = status
    /\ UNCHANGED <<checkpoints, events_delivered, events_after_stop>>
    /\ UNCHANGED <<lifecycle_vars, signal_vars, callback_vars, tdh_vars>>
    /\ UNCHANGED decode_vars

\* start_listening after ProcessTrace returned: return or panic.
ListenReturn ==
    /\ proc = "running"
    /\ pc = "listening"
    /\ pump = "returned"
    /\ panic_msg' = Consumer_start_listening(pump_status)
    /\ pc' = "drop"
    /\ UNCHANGED <<os_handles, proc, controller, consumer, os_calls, start_status>>
    /\ UNCHANGED <<signal_vars, pump_vars, callback_vars, tdh_vars>>
    /\ UNCHANGED decode_vars

\* ------------------------------------------------------------ tdh_wrapper.rs

\* One call of a TDH function: whether a buffer was passed and how many
\* elements it has, the size passed in, the size the OS reported, the status.
TdhCall(api, has_buffer, buffer_len, size_in, size_out, status) ==
    [api |-> api, has_buffer |-> has_buffer, buffer_len |-> buffer_len,
     size_in |-> size_in, size_out |-> size_out, status |-> status]

Ok(buffer_len, consumed) ==
    [ok |-> TRUE, err |-> "none", buffer_len |-> buffer_len, consumed |-> consumed]
Err(status) == [ok |-> FALSE, err |-> status, buffer_len |-> 0, consumed |-> 0]
NoResult == [ok |-> FALSE, err |-> "none", buffer_len |-> 0, consumed |-> 0]

\* Mutant of get_event_information: a sizing call that succeeds at once is
\* taken as the result.
get_event_information_AcceptSuccess(s1, size1, s2) ==
    LET api == "TdhGetEventInformation"
        sizing == TdhCall(api, FALSE, 0, 0, size1, s1)
        data == TdhCall(api, TRUE, size1, size1, size1, s2)
    IN IF s1 = "ERROR_SUCCESS"
       THEN [calls |-> <<sizing>>, result |-> Ok(size1, 0)]
       ELSE IF s1 # "ERROR_INSUFFICIENT_BUFFER"
       THEN [calls |-> <<sizing>>, result |-> Err(s1)]
       ELSE [calls |-> <<sizing, data>>,
             result |-> IF s2 = "ERROR_SUCCESS" THEN Ok(size1, 0) ELSE Err(s2)]

\* Tdh::get_event_information: s1 and size1 are what the sizing call returns,
\* s2 what the data call returns.
get_event_information(s1, size1, s2) ==
    LET api == "TdhGetEventInformation"
        sizing == TdhCall(api, FALSE, 0, 0, size1, s1)
        data == TdhCall(api, TRUE, size1, size1, size1, s2)
    IN IF s1 # "ERROR_INSUFFICIENT_BUFFER"
       THEN [calls |-> <<sizing>>, result |-> Err(s1)]
       ELSE [calls |-> <<sizing, data>>,
             result |-> IF s2 = "ERROR_SUCCESS" THEN Ok(size1, 0) ELSE Err(s2)]

\* Mutant of format_property: a data call that reports a too small buffer is
\* repeated with one more element.
format_property_Retry(s1, size1, s2, consumed2) ==
    LET api == "TdhFormatProperty"
        sizing == TdhCall(api, FALSE, 0, 0, size1, s1)
        data == TdhCall(api, TRUE, size1, size1, size1, s2)
        again == TdhCall(api, TRUE, size1 + 1, size1 + 1, size1 + 1, "ERROR_SUCCESS")
    IN IF s1 # "ERROR_INSUFFICIENT_BUFFER"
       THEN [calls |-> <<sizing>>, result |-> Err(s1)]
       ELSE IF s2 = "ERROR_INSUFFICIENT_BUFFER"
       THEN [calls |-> <<sizing, data, again>>, result |-> Ok(size1 + 1, consumed2)]
       ELSE [calls |-> <<sizing, data>>,
             result |-> IF s2 = "ERROR_SUCCESS" THEN Ok(size1, consumed2) ELSE Err(s2)]

\* Tdh::format_property: s1 and size1 are what the sizing call returns, s2 and
\* consumed2 what the data call returns.  The buffer is a Vec<u16> of size1
\* elements.
format_property(s1, size1, s2, consumed2) ==
    LET api == "TdhFormatProperty"
        sizing == TdhCall(api, FALSE, 0, 0, size1, s1)
        data == TdhCall(api, TRUE, size1, size1, size1, s2)
    IN IF s1 # "ERROR_INSUFFICIENT_BUFFER"
       THEN [calls |-> <<sizing>>, result |-> Err(s1)]
       ELSE [calls |-> <<sizing, data>>,
             result |-> IF s2 = "ERROR_SUCCESS" THEN Ok(size1, consumed2) ELSE Err(s2)]

\* ----------------------------------------------- main.rs: on_process_creation

\* Bytes of a schema buffer and code units of a value buffer: zero, a plain
\* character, a high surrogate (0xD800) and a low surrogate (0xDC00).
Bytes == {0, 1, 216, 220}
CodeUnits == {0, 1, 55296, 56320}

\* u16::from_le_bytes
from_le_bytes(x0, x1) == x0 + 256 * x1

IsHighSurrogate(u) == u \in 55296..56319
IsLowSurrogate(u) == u \in 56320..57343

\* String::from_utf16_lossy, the String written as its UTF-16 code units: a
\* surrogate pair is kept, a lone surrogate becomes U+FFFD.
RECURSIVE from_utf16_lossy(_)
from_utf16_lossy(units) ==
    IF units = <<>> THEN <<>>
    ELSE IF IsHighSurrogate(units[1]) /\ Len(units) >= 2 /\ IsLowSurrogate(units[2])
    THEN <<units[1], units[2]>> \o from_utf16_lossy(SubSeq(units, 3, Len(units)))
    ELSE IF IsHighSurrogate(units[1]) \/ IsLowSurrogate(units[1])
    THEN <<65533>> \o from_utf16_lossy(Tail(units))
    ELSE <<units[1]>> \o from_utf16_lossy(Tail(units))

Decoded(text) == [panic |-> FALSE, text |-> text]
DecodePanics == [panic |-> TRUE, text |-> <<>>]

\* chunks(2).map(|x| u16::from_le_bytes([x[0], x[1]])).take_while(|x| *x != 0):
\* the iterator is lazy, so a trailing chunk of one byte is indexed (and
\* x[1] panics) only when no zero code unit comes before it.
RECURSIVE take_while_nonzero(_)
take_while_nonzero(bytes) ==
    IF bytes = <<>> THEN Decoded(<<>>)
    ELSE IF Len(bytes) = 1 THEN DecodePanics
    ELSE IF from_le_bytes(bytes[1], bytes[2]) = 0 THEN Decoded(<<>>)
    ELSE LET rest == take_while_nonzero(SubSeq(bytes, 3, Len(bytes)))
         IN IF rest.panic THEN DecodePanics
            ELSE Decoded(<<from_le_bytes(bytes[1], bytes[2])>> \o rest.text)

\* The property name: buffer[NameOffset..] decoded up to the first zero code
\* unit. The offset counts from 0; slicing past the end panics.
property_name(buffer, NameOffset) ==
    IF NameOffset > Len(buffer) THEN DecodePanics
    ELSE LET units == take_while_nonzero(SubSeq(buffer, NameOffset + 1, Len(buffer)))
         IN IF units.panic THEN DecodePanics ELSE Decoded(from_utf16_lossy(units.text))

\* iter().position(|x| *x == 0).unwrap_or(property_data.len())
position_of_zero(units) ==
    IF \E i \in DOMAIN units : units[i] = 0
    THEN (CHOOSE i \in DOMAIN units : units[i] = 0 /\ \A j \in 1..(i - 1) : units[j] # 0) - 1
    ELSE Len(units)

\* Mutant of property_data: the whole buffer is the value.
property_data_Whole(buffer) == Decoded(from_utf16_lossy(buffer))

\* The property value: the decoder's buffer up to the first zero code unit.
property_data(buffer) ==
    Decoded(from_utf16_lossy(SubSeq(buffer, 1, position_of_zero(buffer))))

SeqsUpTo(S, n) == UNION {[1..k -> S] : k \in 0..n}

NoDecode == [fn |-> "none", buffer |-> <<>>, NameOffset |-> 0, done |-> FALSE, out |-> Decoded(<<>>)]

\* The buffers the two decodings are applied to on their own.
DecodeInputs ==
    UNION {{[fn |-> "property_name", buffer |-> b, NameOffset |-> o, done |-> FALSE,
             out |-> Decoded(<<>>)] : o \in 0..(Len(b) + 1)} : b \in SeqsUpTo(Bytes, MaxNameBytes)}
    \cup {[fn |-> "property_data", buffer |-> b, NameOffset |-> 0, done |-> FALSE,
            out |-> Decoded(<<>>)] : b \in SeqsUpTo(CodeUnits, MaxUnits)}

ApplyPropertyName ==
    /\ dec.fn = "property_name"
    /\ ~dec.done
    /\ dec' = [dec EXCEPT !.done = TRUE, !.out = property_name(dec.buffer, dec.NameOffset)]
    /\ UNCHANGED <<lifecycle_vars, signal_vars, pump_vars, callback_vars, tdh_vars>>

ApplyPropertyData ==
    /\ dec.fn = "property_data"
    /\ ~dec.done
    /\ dec' = [dec EXCEPT !.done = TRUE, !.out = property_data(dec.buffer)]
    /\ UNCHANGED <<lifecycle_vars, signal_vars, pump_vars, callback_vars, tdh_vars>>

Min(a, b) == IF a < b THEN a ELSE b

NoRecord == [Opcode |-> 0, UserDataLength |-> 0]
NoTrace ==
    [PropertyCount |-> 0, TopLevelPropertyCount |-> 0,
     EventPropertyInfoArray |-> <<>>, buffer |-> <<>>]

\* An EVENT_PROPERTY_INFO entry.
PropertyInfo(name_offset, in_type, out_type) ==
    [NameOffset |-> name_offset, InType |-> in_type, OutType |-> out_type, length |-> 0]

\* In-types (TDH_INTYPE_UNICODESTRING, TDH_INTYPE_UINT32) and out-types
\* (TDH_OUTTYPE_NULL, TDH_OUTTYPE_STRING).
InTypes == {1, 8}
OutTypes == {0, 1}

\* The names of n properties as the OS lays them out: property k is named by
\* the one code unit k, NUL-terminated.  The modelled buffer is the name area
\* of the TRACE_EVENT_INFO buffer and a NameOffset counts from its start.
RECURSIVE NameArea(_)
NameArea(n) == IF n = 0 THEN <<>> ELSE NameArea(n - 1) \o <<n, 0, 0, 0>>

\* The TRACE_EVENT_INFO the OS writes for an event with n properties, t of
\* them top-level, all of the given <<in-type, out-type>>.
Schema(n, t, type) ==
    [PropertyCount |-> n, TopLevelPropertyCount |-> t,
     EventPropertyInfoArray |->
        [k \in 1..n |-> PropertyInfo(4 * (k - 1), type[1], type[2])],
     buffer |-> NameArea(n)]

SchemasOf(T) ==
    UNION {{Schema(n, t, type) : t \in 0..n, type \in T} : n \in 0..MaxProps}

Schemas == SchemasOf(InTypes \X OutTypes)

\* Schemas of string properties with the default out-type.
PlainSchemas == SchemasOf({<<1, 0>>})

\* The code units the OS formatter writes: a character or the terminator.
ValueUnits == {0, 1}
ValueBuffers == SeqsUpTo(ValueUnits, MaxBufSize)

\* What the data call of TdhFormatProperty can report as consumed and write
\* into a buffer of size1 elements; nothing when no data call succeeds.
DataCallSucceeds(s1, s2) == s1 = "ERROR_INSUFFICIENT_BUFFER" /\ s2 = "ERROR_SUCCESS"
ConsumedReported(s1, s2) == IF DataCallSucceeds(s1, s2) THEN 0..(MaxLen + 1) ELSE {0}
BuffersWritten(s1, s2, size1, buffers) ==
    IF DataCallSucceeds(s1, s2) THEN {b \in buffers : Len(b) = size1} ELSE {<<>>}
SchemasWritten(s1, s2, schemas) == IF DataCallSucceeds(s1, s2) THEN schemas ELSE {NoTrace}

\* The buffers that hold a NUL-terminated string of the character.
TerminatedBuffers ==
    {<<>>} \cup {[i \in 1..k |-> IF i = k THEN 0 ELSE 1] : k \in 1..MaxBufSize}

\* Mutant of format_property_args: the out-type is passed on as it is.
format_property_args_OutTypeAsIs(property_info) ==
    [PropertyType |-> property_info.InType,
     PropertyOutputType |-> property_info.OutType,
     PropertyLength |-> property_info.length]

\* The type arguments the closure in Tdh::format_property passes to
\* TdhFormatProperty in both of its calls.
format_property_args(property_info) ==
    [PropertyType |-> property_info.InType,
     PropertyOutputType |-> IF property_info.OutType = 0
                            THEN property_info.InType ELSE property_info.OutType,
     PropertyLength |-> property_info.length]

\* Mutant of top_level_properties: the loop runs over every property.
top_level_properties_All(schema) == schema.PropertyCount

\* property_infos.iter().take(trace.TopLevelPropertyCount): how many turns the loop makes.
top_level_properties(schema) == Min(schema.TopLevelPropertyCount, schema.PropertyCount)

\* Mutant of slice_from: no bounds check.
slice_from_Unchecked(len, start) == [panic |-> FALSE, len |-> len - start]

\* &userdata[consumed_bytes..] on a slice of the given length.
slice_from(len, start) == [panic |-> start > len, len |-> len - start]

EmptyMap == [k \in {} |-> ""]

\* HashMap::insert
Insert(map, key, value) ==
    [k \in DOMAIN map \cup {key} |-> IF k = key THEN value ELSE map[k]]

\* Mutant of Accepted: the opcode is not looked at.
Accepted_AnyOpcode(opcode, length) == ~(length = 0)

\* The filter at the head of the callback.
Accepted(opcode, length) == ~(opcode \notin {AcceptedOpcode} \/ length = 0)

\* Mutant of CallbackPanics: the failure is noted and the callback returns
\* to the pump, which goes on with the next event.
CallbackPanics_Skips(msg, outcome) ==
    /\ cb_panic' = msg
    /\ cb_pc' = "idle"
    /\ pump' = "running"
    /\ UNCHANGED <<proc, pump_status>>

\* A panic inside the extern "system" callback cannot unwind into the caller:
\* the process aborts, or (toolchains where this is undefined behaviour) the
\* pump catches the exception and returns ERROR_NOACCESS.
CallbackPanics(msg, outcome) ==
    /\ cb_panic' = msg
    /\ cb_pc' = "panicked"
    /\ IF outcome = "abort"
       THEN /\ proc' = "aborted"
            /\ UNCHANGED <<pump, pump_status>>
       ELSE /\ pump' = "returned"
            /\ pump_status' = "ERROR_NOACCESS"
            /\ UNCHANGED proc

ExpectMessage == Msg("Could not get buffer information.", "")

\* 1 once a checkpoint has told the pump to stop, 0 before.
StopRequested == IF \E i \in DOMAIN checkpoints : checkpoints[i] = 0 THEN 1 ELSE 0

\* The pump hands an event to on_process_creation.
OnProcessCreation(opcode, length) ==
    /\ proc = "running"
    /\ pump = "running"
    /\ cb_pc = "idle"
    /\ consumer.reghandle \in ValidHandles
    /\ events_delivered < MaxEvents
    /\ events_delivered' = events_delivered + 1
    /\ events_after_stop' = events_after_stop + StopRequested
    /\ record' = [Opcode |-> opcode, UserDataLength |-> length]
    /\ cb_pc' = "filter"
    /\ pump' = "callback"
    /\ projected' = <<>>
    /\ UNCHANGED <<pump_status, checkpoints>>
    /\ UNCHANGED <<cb_panic, trace, prop_index, userdata, property_info_map, cb_log>>
    /\ UNCHANGED <<lifecycle_vars, signal_vars, tdh_vars>>
    /\ UNCHANGED decode_vars

\* The filter: an event that is not accepted makes the callback return at once.
FilterEvent ==
    /\ proc = "running"
    /\ cb_pc = "filter"
    /\ IF Accepted(record.Opcode, record.UserDataLength)
       THEN /\ cb_pc' = "resolve"
            /\ UNCHANGED <<record, pump>>
       ELSE /\ cb_pc' = "idle"
            /\ pump' = "running"
            /\ record' = NoRecord
    /\ UNCHANGED <<pump_status, checkpoints, events_delivered, events_after_stop>>
    /\ UNCHANGED <<cb_panic, trace, prop_index, userdata, property_info_map, projected, cb_log>>
    /\ UNCHANGED <<lifecycle_vars, signal_vars, tdh_vars>>
    /\ UNCHANGED decode_vars

\* Tdh::get_event_information(record, None).expect(..) and the set-up of the loop.
ResolveSchema(s1, size1, s2, schema, outcome) ==
    /\ proc = "running"
    /\ cb_pc = "resolve"
    /\ LET r == get_event_information(s1, size1, s2)
       IN /\ tdh_fn' = "get_event_information"
          /\ tdh_calls' = r.calls
          /\ tdh_result' = r.result
          /\ IF r.result.ok
             THEN /\ outcome = "abort"
                  /\ trace' = schema
                  /\ userdata' = record.UserDataLength
                  /\ prop_index' = 0
                  /\ property_info_map' = EmptyMap
                  /\ cb_pc' = "decode"
                  /\ UNCHANGED <<cb_panic, proc, pump, pump_status>>
             ELSE /\ schema = NoTrace
                  /\ CallbackPanics(ExpectMessage, outcome)
                  /\ UNCHANGED <<trace, userdata, prop_index, property_info_map>>
          /\ cb_log' = Append(cb_log, [fn |-> "get_event_information", ok |-> r.result.ok])
    /\ UNCHANGED <<os_handles, pc, panic_msg, controller, consumer, os_calls, start_status>>
    /\ UNCHANGED <<checkpoints, events_delivered, events_after_stop, record, projected>>
    /\ UNCHANGED signal_vars
    /\ UNCHANGED decode_vars

\* One turn of the loop over the top-level properties: the property is
\* formatted (buffer is what the OS writes into the Vec<u16>), its name and
\* value are decoded and inserted, and the payload slice is advanced.
DecodeProperty(s1, size1, s2, consumed2, buffer, outcome) ==
    /\ proc = "running"
    /\ cb_pc = "decode"
    /\ prop_index < top_level_properties(trace)
    /\ LET property_info == trace.EventPropertyInfoArray[prop_index + 1]
           r == format_property(s1, size1, s2, consumed2)
           name == property_name(trace.buffer, property_info.NameOffset)
           data == property_data(buffer)
           rest == slice_from(userdata, r.result.consumed)
       IN /\ tdh_fn' = "format_property"
          /\ tdh_calls' = r.calls
          /\ tdh_result' = r.result
          /\ cb_log' = Append(cb_log,
                [fn |-> "format_property", ok |-> r.result.ok,
                 property_info |-> property_info,
                 args |-> format_property_args(property_info),
                 userdata |-> userdata, buffer |-> buffer,
                 consumed |-> r.result.consumed])
          /\ IF ~r.result.ok
             THEN /\ CallbackPanics(ExpectMessage, outcome)
                  /\ UNCHANGED <<userdata, prop_index, property_info_map>>
             ELSE IF name.panic
             THEN /\ CallbackPanics(Msg("index out of bounds", ""), outcome)
                  /\ UNCHANGED <<userdata, prop_index, property_info_map>>
             ELSE IF rest.panic
             THEN /\ CallbackPanics(Msg("range start index out of range for slice", ""), outcome)
                  /\ property_info_map' = Insert(property_info_map, name.text, data.text)
                  /\ UNCHANGED <<userdata, prop_index>>
             ELSE /\ outcome = "abort"
                  /\ property_info_map' = Insert(property_info_map, name.text, data.text)
                  /\ userdata' = rest.len
                  /\ prop_index' = prop_index + 1
                  /\ UNCHANGED <<cb_pc, cb_panic, proc, pump, pump_status>>
    /\ UNCHANGED <<os_handles, pc, panic_msg, controller, consumer, os_calls, start_status>>
    /\ UNCHANGED <<checkpoints, events_delivered, events_after_stop, record, trace, projected>>
    /\ UNCHANGED signal_vars
    /\ UNCHANGED decode_vars

\* The loop is over: the map goes to ProcessTypeGroup1::from and the callback returns.
FinishEvent ==
    /\ proc = "running"
    /\ cb_pc = "decode"
    /\ prop_index >= top_level_properties(trace)
    /\ projected' = <<property_info_map>>
    /\ cb_log' = <<>>
    /\ cb_pc' = "idle"
    /\ pump' = "running"
    /\ record' = NoRecord
    /\ trace' = NoTrace
    /\ prop_index' = 0
    /\ userdata' = 0
    /\ property_info_map' = EmptyMap
    /\ tdh_fn' = "none"
    /\ tdh_calls' = <<>>
    /\ tdh_result' = NoResult
    /\ UNCHANGED <<pump_status, checkpoints, events_delivered, events_after_stop, cb_panic>>
    /\ UNCHANGED <<lifecycle_vars, signal_vars>>
    /\ UNCHANGED decode_vars

\* ------------------------------------------------------------ specifications

\* No callback has run yet.
CallbackAtRest ==
    /\ cb_pc = "idle"
    /\ cb_panic = NoPanic
    /\ record = NoRecord
    /\ trace = NoTrace
    /\ prop_index = 0
    /\ userdata = 0
    /\ property_info_map = EmptyMap
    /\ projected = <<>>
    /\ cb_log = <<>>
    /\ tdh_fn = "none"
    /\ tdh_calls = <<>>
    /\ tdh_result = NoResult

InitProgram ==
    /\ pc = "controller_new"
    /\ proc = "running"
    /\ panic_msg = NoPanic
    /\ SIGINT = FALSE
    /\ handler_installed = FALSE
    /\ set_attempts = 0
    /\ ctrlc_messages = 0
    /\ controller = NoController
    /\ consumer = NoConsumer
    /\ os_calls = <<>>
    /\ start_status = "none"
    /\ pump = "idle"
    /\ pump_status = "none"
    /\ checkpoints = <<>>
    /\ events_delivered = 0
    /\ events_after_stop = 0
    /\ CallbackAtRest

\* The OS may hand out any handle value on success.
Init == InitProgram /\ os_handles = AnyHandle /\ dec = NoDecode

\* The OS keeps its documented contract: a handle it hands out on success is
\* neither zero nor the invalid-handle value.
InitDocumentedOS == InitProgram /\ os_handles = ValidHandles /\ dec = NoDecode

\* The two decodings alone, applied to every buffer up to the bounds.
InitDecode == InitProgram /\ os_handles = ValidHandles /\ dec \in DecodeInputs
NextDecode ==
    \/ ApplyPropertyName
    \/ ApplyPropertyData

Next ==
    \/ \E status \in StartStatuses, h \in os_handles : ControllerNew(status, h)
    \/ \E time_ok \in BOOLEAN, h \in os_handles \cup {InvalidHandle} : ConsumerNew(time_ok, h)
    \/ \E ok \in BOOLEAN : SetHandler(ok)
    \/ Interrupt
    \/ InterruptDefault
    \/ StartListening
    \/ PumpCheckpoint
    \/ \E status \in PumpStatuses : PumpReturn(status)
    \/ ListenReturn
    \/ \E opcode \in {1, 2}, length \in 0..MaxLen : OnProcessCreation(opcode, length)
    \/ FilterEvent
    \/ \E s1 \in TdhStatuses, s2 \in TdhStatuses, outcome \in {"abort", "caught"} :
          \E size1 \in SizesReported(s1), schema \in SchemasWritten(s1, s2, PlainSchemas) :
              ResolveSchema(s1, size1, s2, schema, outcome)
    \/ \E s1 \in TdhStatuses, s2 \in TdhStatuses, outcome \in {"abort", "caught"} :
          \E size1 \in SizesReported(s1) :
              \E consumed2 \in ConsumedReported(s1, s2),
                 buffer \in BuffersWritten(s1, s2, size1, TerminatedBuffers) :
                  DecodeProperty(s1, size1, s2, consumed2, buffer, outcome)
    \/ FinishEvent
    \/ \E status \in StopStatuses : DropController(status)
    \/ \E status \in CloseStatuses : DropConsumer(status)
    \/ Exit

Spec == Init /\ [][Next]_vars

\* The pump has just been started after a start-up without failure and
\* without Ctrl-C: the session is started, the trace is open, the handler is
\* installed.  From here the OS delivers events with every schema and every
\* formatter output up to the bounds.
InitProjector ==
    /\ os_handles = ValidHandles
    /\ \E h \in ValidHandles :
          /\ controller = [state |-> "live",
                           trace_handle |-> h,
                           session_name |-> SESSION_NAME,
                           event_prop_buf |->
                              NameCopied(PropertiesBlock(NameBytesWithNul), SESSION_NAME)]
          /\ consumer = [state |-> "live", reghandle |-> h]
          /\ os_calls =
                <<OsCall("StartTraceA", DefaultHandle, SESSION_NAME,
                         PropertiesBlock(NameBytesWithNul), "ERROR_SUCCESS"),
                  OsCall("OpenTraceA", h, SESSION_NAME, NoProperties, "none"),
                  OsCall("ProcessTrace", h, "", NoProperties, "none")>>
    /\ pc = "listening"
    /\ proc = "running"
    /\ panic_msg = NoPanic
    /\ start_status = "ERROR_SUCCESS"
    /\ SIGINT = FALSE
    /\ handler_installed = TRUE
    /\ set_attempts = 0
    /\ ctrlc_messages = 0
    /\ pump = "running"
    /\ pump_status = "none"
    /\ checkpoints = <<>>
    /\ events_delivered = 0
    /\ events_after_stop = 0
    /\ CallbackAtRest
    /\ dec = NoDecode

NextProjector ==
    \/ \E opcode \in {1, 2}, length \in 0..MaxLen : OnProcessCreation(opcode, length)
    \/ FilterEvent
    \/ \E s1 \in TdhStatuses, s2 \in TdhStatuses, outcome \in {"abort", "caught"} :
          \E size1 \in SizesReported(s1), schema \in SchemasWritten(s1, s2, Schemas) :
              ResolveSchema(s1, size1, s2, schema, outcome)
    \/ \E s1 \in TdhStatuses, s2 \in TdhStatuses, outcome \in {"abort", "caught"} :
          \E size1 \in SizesReported(s1) :
              \E consumed2 \in ConsumedReported(s1, s2),
                 buffer \in BuffersWritten(s1, s2, size1, ValueBuffers) :
                  DecodeProperty(s1, size1, s2, consumed2, buffer, outcome)
    \/ FinishEvent
    \/ \E status \in PumpStatuses : PumpReturn(status)
    \/ ListenReturn
    \/ \E status \in StopStatuses : DropController(status)
    \/ \E status \in CloseStatuses : DropConsumer(status)
    \/ Exit

SpecProjector == InitProjector /\ [][NextProjector]_vars

SpecDecode == InitDecode /\ [][NextDecode]_vars

SpecDocumentedOS == InitDocumentedOS /\ [][Next]_vars

\* -------------------------------------------------------------------- claims

CallsOf(api) == {i \in DOMAIN os_calls : os_calls[i].api = api}
StopIssued == CallsOf("ControlTraceA_STOP") # {}
CloseIssued == CallsOf("CloseTrace") # {}
Sentinels == {DefaultHandle, InvalidHandle}
PumpCallOver == pump_status # "none" /\ pc \in {"drop", "exit"}

\* C1: when SIGINT is set before the pump's first checkpoint, start_listening
\* returns to its caller without a panic, and no event is handed to the
\* per-event callback after that checkpoint.
C1_CancelledPumpReturnsNormally ==
    (Len(checkpoints) >= 1 /\ checkpoints[1] = 0)
        => /\ events_after_stop = 0
           /\ cb_panic = NoPanic
           /\ PumpCallOver => panic_msg = NoPanic

\* C2: SIGINT starts unset; once set it stays set; every set attempt leaves it
\* set, the first one reports success (one message) and every later one
\* changes nothing.
C2_WriteOnce ==
    /\ ~SIGINT
    /\ [][/\ SIGINT => SIGINT'
          /\ set_attempts' = set_attempts + 1
                => /\ SIGINT'
                   /\ ctrlc_messages' = IF SIGINT THEN ctrlc_messages ELSE ctrlc_messages + 1]_vars

C2_Witness == SIGINT /\ set_attempts = 2 /\ ctrlc_messages = 1

\* C3: every status of StartTraceA other than success makes Controller::new
\* panic; a Controller exists only after a successful start, and no stop is
\* issued for a session whose start failed.
C3_StartFailureIsFatal ==
    /\ start_status \notin {"none", "ERROR_SUCCESS"}
          => /\ panic_msg # NoPanic
             /\ controller.state = "none"
             /\ consumer.state = "none"
             /\ ~StopIssued
             /\ pc \in {"drop", "exit"}
    /\ controller.state # "none" => start_status = "ERROR_SUCCESS"

C3_Witness ==
    /\ start_status = "ERROR_GEN_FAILURE"
    /\ panic_msg = Msg("Unspecified Error", "ERROR_GEN_FAILURE")
    /\ proc = "exited"

\* C4: when a Controller is released, the stop call is issued exactly when its
\* handle is neither 0 nor the invalid-handle value, and it is issued with the
\* session name and the properties block that were passed to start.
C4_StopIffNotSentinel ==
    controller.state = "dropped"
        => /\ StopIssued <=> controller.trace_handle \notin Sentinels
           /\ \A i \in CallsOf("ControlTraceA_STOP") : \A j \in CallsOf("StartTraceA") :
                 /\ os_calls[i].name = os_calls[j].name
                 /\ [os_calls[i].props EXCEPT !.spare = ""]
                        = [os_calls[j].props EXCEPT !.spare = ""]

\* C5: the handle of a started session is not a sentinel; releasing the
\* Controller stops the session once and raises no error whatever the stop
\* call returns; the session is never stopped a second time.
C5_StopOnceNoError ==
    /\ [](/\ controller.state # "none" => controller.trace_handle \notin Sentinels
          /\ Cardinality(CallsOf("ControlTraceA_STOP")) <= 1
          /\ controller.state = "dropped" => Cardinality(CallsOf("ControlTraceA_STOP")) = 1
          /\ \A i \in CallsOf("ControlTraceA_STOP") : os_calls[i].handle = controller.trace_handle)
    /\ [][controller.state = "live" /\ controller'.state = "dropped"
              => panic_msg' = panic_msg /\ proc' = proc]_vars

C5_Witness ==
    /\ controller.state = "dropped"
    /\ StopIssued
    /\ panic_msg = NoPanic
    /\ proc = "exited"

\* C6: when OpenTraceA returns the invalid handle, Consumer::new panics: no
\* Consumer holds that handle and the pump is never run on it.
C6_OpenFailureIsFatal ==
    (\E i \in CallsOf("OpenTraceA") : os_calls[i].handle = InvalidHandle)
        => /\ panic_msg # NoPanic
           /\ consumer.state = "none"
           /\ CallsOf("ProcessTrace") = {}

\* C7: when a Consumer is released, CloseTrace is issued exactly when its
\* handle is not zero; it is issued at most once, only by the release, with
\* the Consumer's handle, and never with the zero handle.
C7_CloseIffNonZero ==
    /\ consumer.state = "dropped" => (CloseIssued <=> consumer.reghandle # DefaultHandle)
    /\ consumer.state # "dropped" => ~CloseIssued
    /\ Cardinality(CallsOf("CloseTrace")) <= 1
    /\ \A i \in CallsOf("CloseTrace") :
          /\ os_calls[i].handle # DefaultHandle
          /\ os_calls[i].handle = consumer.reghandle

C7_Witness ==
    /\ consumer.state = "dropped"
    /\ consumer.reghandle \in ValidHandles
    /\ CloseIssued

\* C8: start_listening returns without a panic only when ProcessTrace returned
\* success; every other status panics, and the message of the panic tells
\* the status apart from every other status.
C8_DistinctPumpMessages ==
    PumpCallOver
        => /\ panic_msg = NoPanic <=> pump_status = "ERROR_SUCCESS"
           /\ \A other \in PumpStatuses \ {pump_status} :
                 Consumer_start_listening(other) # panic_msg

C10_SizingFailurePropagates ==
    (tdh_fn # "none" /\ tdh_calls[1].status # "ERROR_INSUFFICIENT_BUFFER")
        => /\ Len(tdh_calls) = 1
           /\ tdh_result = Err(tdh_calls[1].status)
           /\ ~tdh_result.ok
           /\ tdh_result.buffer_len = 0

C10_Witness ==
    /\ tdh_fn = "get_event_information"
    /\ tdh_calls[1].status = "ERROR_SUCCESS"
    /\ tdh_calls[1].size_out = 0
    /\ tdh_result.err = "ERROR_SUCCESS"

\* C11: an event whose opcode is not 1 or whose payload is empty makes the
\* callback return without a schema resolution, a property decode, a map or
\* a panic; schema resolution and decoding happen only for events with
\* opcode 1 and a non-empty payload.
C11_FilteredBeforeResolution ==
    /\ [](cb_pc \in {"resolve", "decode"} \/ tdh_fn # "none"
             => record.Opcode = 1 /\ record.UserDataLength > 0)
    /\ [][(cb_pc = "filter" /\ (record.Opcode # 1 \/ record.UserDataLength = 0))
             => /\ cb_pc' \in {"filter", "idle"}
                /\ UNCHANGED <<tdh_vars, projected, property_info_map, cb_panic, proc, panic_msg>>]_vars

\* A delivered event was filtered out: the callback is back at the pump and
\* nothing was projected.
C11_Witness ==
    /\ events_delivered = 1
    /\ proc = "running"
    /\ cb_pc = "idle"
    /\ pump = "running"
    /\ tdh_fn = "none"
    /\ projected = <<>>

\* The complete code units of a buffer from a byte offset on.
UnitsAt(buffer, offset) ==
    LET rest == SubSeq(buffer, offset + 1, Len(buffer))
    IN [i \in 1..(Len(rest) \div 2) |-> rest[2 * i - 1] + 256 * rest[2 * i]]

\* The code units before the first zero code unit, all of them when there is none.
BeforeFirstZero(units) ==
    LET zeros == {i \in DOMAIN units : units[i] = 0}
    IN IF zeros = {} THEN units
       ELSE SubSeq(units, 1, (CHOOSE i \in zeros : \A j \in zeros : i <= j) - 1)

\* C13: the name decoding and the value decoding each yield exactly the code
\* units before the first zero code unit of their buffer, for every buffer
\* content (the whole buffer when it holds no zero).
C13_DecodingStopsAtFirstZero ==
    dec.done =>
        /\ ~dec.out.panic
        /\ dec.fn = "property_name"
              => dec.out.text = BeforeFirstZero(UnitsAt(dec.buffer, dec.NameOffset))
        /\ dec.fn = "property_data" => dec.out.text = BeforeFirstZero(dec.buffer)

\* What does hold of the two decodings: nothing at or after the first zero
\* code unit is read, and a text without surrogates comes out unchanged.
C13_TruncationOfPlainText ==
    dec.done /\ ~dec.out.panic =>
        LET units == IF dec.fn = "property_name"
                     THEN UnitsAt(dec.buffer, dec.NameOffset) ELSE dec.buffer
            head == BeforeFirstZero(units)
        IN /\ Len(dec.out.text) = Len(head)
           /\ \A i \in DOMAIN head :
                 \/ dec.out.text[i] = head[i]
                 \/ (IsHighSurrogate(head[i]) \/ IsLowSurrogate(head[i])) /\ dec.out.text[i] = 65533

\* The callback has made every turn of the loop over the top-level properties.
LoopDone == cb_pc = "decode" /\ prop_index = trace.TopLevelPropertyCount

\* The bytes the decoder reported as consumed in the invocations before the k-th.
RECURSIVE ConsumedBefore(_)
ConsumedBefore(k) ==
    IF k <= 1 THEN 0
    ELSE ConsumedBefore(k - 1)
            + (IF cb_log[k - 1].fn = "format_property" THEN cb_log[k - 1].consumed ELSE 0)

\* C12: at every step of the loop, and when all top-level properties are
\* processed, the bytes the cursor has consumed do not exceed the payload
\* length; the cursor stands at the sum of the consumed counts.
C12_CursorWithinPayload ==
    /\ cb_pc \in {"decode", "panicked"} /\ trace # NoTrace
          => userdata \in 0..record.UserDataLength
    /\ cb_pc = "decode"
          => /\ record.UserDataLength - userdata = ConsumedBefore(Len(cb_log) + 1)
             /\ ConsumedBefore(Len(cb_log) + 1) <= record.UserDataLength

\* The last property was decoded and the cursor has moved.
C12_Witness ==
    /\ LoopDone
    /\ prop_index >= 1
    /\ userdata < record.UserDataLength

\* The descriptor that differs from d only in the out-type: 0 for the
\* in-type and the in-type for 0.
Twin(d) == [d EXCEPT !.OutType = IF d.OutType = 0 THEN d.InType ELSE 0]

\* C14: the formatter is given the descriptor's in-type as native type and,
\* as display type, the in-type when the out-type is 0 and the out-type
\* otherwise; a descriptor with out-type 0 and the one with the out-type
\* equal to the in-type give the same formatter arguments.
C14_DisplayTypeDefaultsToInType ==
    \A k \in DOMAIN cb_log :
        cb_log[k].fn = "format_property" =>
            LET d == trace.EventPropertyInfoArray[k - 1]
                args == cb_log[k].args
            IN /\ args.PropertyType = d.InType
               /\ d.OutType = 0 => args.PropertyOutputType = d.InType
               /\ d.OutType # 0 => args.PropertyOutputType = d.OutType
               /\ d.OutType \in {0, d.InType} => args = format_property_args(Twin(d))

\* Two properties of in-type 8 and out-type 0 have been formatted with the
\* display type 8.
C14_Witness ==
    /\ cb_pc = "decode"
    /\ prop_index = 2
    /\ cb_log[2].ok
    /\ cb_log[2].property_info.OutType = 0
    /\ cb_log[2].property_info.InType = 8
    /\ cb_log[2].args.PropertyOutputType = 8

\* The name the schema gives its k-th property.
NameOf(k) ==
    BeforeFirstZero(UnitsAt(trace.buffer, trace.EventPropertyInfoArray[k].NameOffset))

\* C15: when the n top-level properties of an accepted event have all been
\* decoded and their consumed counts add up to the payload length, the map
\* has exactly n keys, the value under the name of each property is the text
\* the decoder produced for it, the cursor has consumed the whole payload,
\* and this map is what the projection receives.
C15_CompleteEventGivesCompleteMap ==
    /\ [](LoopDone /\ ConsumedBefore(Len(cb_log) + 1) = record.UserDataLength
            => /\ record.Opcode = 1
               /\ Cardinality(DOMAIN property_info_map) = trace.TopLevelPropertyCount
               /\ \A k \in 1..trace.TopLevelPropertyCount :
                     /\ NameOf(k) \in DOMAIN property_info_map
                     /\ property_info_map[NameOf(k)] = BeforeFirstZero(cb_log[k + 1].buffer)
               /\ userdata = 0)
    /\ [][LoopDone /\ cb_pc' = "idle" => projected' = <<property_info_map>>]_vars

\* Two properties were decoded, one of them to a non-empty text, and the
\* payload is used up.
C15_Witness ==
    /\ LoopDone
    /\ trace.TopLevelPropertyCount = 2
    /\ userdata = 0
    /\ Cardinality(DOMAIN property_info_map) = 2
    /\ \E name \in DOMAIN property_info_map : property_info_map[name] # <<>>

\* C18: a callback that gets as far as the projection resolves the schema
\* once, before anything else, and then invokes the decoder once for each of
\* the first TopLevelPropertyCount entries of the schema, in schema order,
\* and for no other entry; the slice passed for an entry is the payload less
\* the bytes the decoder consumed for the entries before it.
C18_OneResolveThenOrderedDecodes ==
    /\ [](cb_log # <<>>
            => /\ cb_log[1].fn = "get_event_information"
               /\ cb_pc = "decode" => Len(cb_log) = 1 + prop_index
               /\ \A k \in 2..Len(cb_log) :
                     /\ cb_log[k].fn = "format_property"
                     /\ k - 1 <= trace.TopLevelPropertyCount
                     /\ cb_log[k].property_info = trace.EventPropertyInfoArray[k - 1]
                     /\ cb_log[k].userdata = record.UserDataLength - ConsumedBefore(k))
    /\ [][cb_pc = "decode" /\ cb_pc' = "idle"
            => Len(cb_log) = 1 + trace.TopLevelPropertyCount]_vars

\* Two top-level properties were decoded, the first consuming a byte, so
\* the second was passed the payload without its first byte.
C18_Witness ==
    /\ LoopDone
    /\ trace.TopLevelPropertyCount = 2
    /\ Len(cb_log) = 3
    /\ cb_log[2].consumed = 1
    /\ cb_log[3].userdata = record.UserDataLength - 1

\* C19: a schema resolution or a property decode that fails is fatal: the
\* callback panics, no map of that event reaches the projection, no later
\* property is decoded and no later event is processed, and the process ends
\* by the abort or by a panic of the main thread.
C19_DecodeFailureIsFatal ==
    /\ [][(cb_log' # cb_log /\ cb_log' # <<>> /\ ~cb_log'[Len(cb_log')].ok)
             => cb_panic' # NoPanic]_vars
    /\ [](cb_panic # NoPanic
             => /\ cb_pc = "panicked"
                /\ projected = <<>>
                /\ proc = "aborted" \/ (pump = "returned" /\ pump_status = "ERROR_NOACCESS")
                /\ proc = "exited" => panic_msg # NoPanic)
    /\ [][cb_panic # NoPanic
             => UNCHANGED <<cb_panic, cb_log, tdh_vars, prop_index, property_info_map,
                            projected, events_delivered>>]_vars

\* The decode of the first of two top-level properties of the first event
\* failed, and the process has ended.
C19_Witness ==
    /\ cb_panic = ExpectMessage
    /\ events_delivered = 1
    /\ trace.TopLevelPropertyCount = 2
    /\ Len(cb_log) = 2
    /\ ~cb_log[2].ok
    /\ proc = "exited"

\* C16: whatever the OS returns for the stop call of the Controller's
\* release and for the close call of the Consumer's release, the release
\* raises no panic and does not end the process, the process does not exit
\* with a value left unreleased, and a released Consumer with a non-zero
\* handle has had its close call even when the stop call failed.
C16_TeardownFailuresSuppressed ==
    /\ [][controller.state = "live" /\ controller'.state = "dropped"
              => panic_msg' = panic_msg /\ proc' = proc /\ pc' = pc]_vars
    /\ [][consumer.state = "live" /\ consumer'.state = "dropped"
              => panic_msg' = panic_msg /\ proc' = proc /\ pc' = pc]_vars
    /\ [](proc = "exited" => controller.state # "live" /\ consumer.state # "live")
    /\ [](consumer.state = "dropped" /\ consumer.reghandle # DefaultHandle => CloseIssued)

\* The stop call and the close call both failed and the process has ended
\* without a panic.
C16_Witness ==
    /\ proc = "exited"
    /\ panic_msg = NoPanic
    /\ \E i \in CallsOf("ControlTraceA_STOP"), j \in CallsOf("CloseTrace") :
          /\ i < j
          /\ os_calls[i].status # "ERROR_SUCCESS"
          /\ os_calls[j].status # "ERROR_SUCCESS"

\* C17: a checkpoint returns 1 (continue) exactly when the flag is unset and
\* 0 (stop) exactly when it is set; setting the flag changes nothing of a
\* running callback or of the pump, which reads it only at a checkpoint; and
\* once a checkpoint has returned 0 no event callback is started.
C17_CheckpointReadsFlag ==
    /\ [][Len(checkpoints') = Len(checkpoints) + 1
              => /\ checkpoints'[Len(checkpoints')] \in {0, 1}
                 /\ checkpoints'[Len(checkpoints')] = 1 <=> ~SIGINT
                 /\ checkpoints'[Len(checkpoints')] = 0 <=> SIGINT
                 /\ cb_pc = "idle"]_vars
    /\ [][SIGINT' # SIGINT => UNCHANGED <<callback_vars, tdh_vars, pump_vars>>]_vars
    /\ [][StopRequested = 1 => events_delivered' = events_delivered /\ cb_pc' = cb_pc]_vars

\* The flag is set and no checkpoint has read it; the callback is in the
\* middle of its loop.
C17_Witness ==
    /\ SIGINT
    /\ checkpoints = <<>>
    /\ cb_pc = "decode"
    /\ prop_index = 1
    /\ trace.TopLevelPropertyCount = 2

\* The calls that are passed the Session Properties Block.
BlockCalls == CallsOf("StartTraceA") \cup CallsOf("ControlTraceA_STOP")

\* C20 as stated: at the start call and at the stop call the block has
\* LoggerNameOffset = header size and BufferSize = header size + name bytes
\* with NUL, and the buffer holds the header followed by the session name.
C20_BlockHoldsHeaderAndName ==
    \A i \in BlockCalls :
        /\ os_calls[i].props.LoggerNameOffset = HeaderSize
        /\ os_calls[i].props.BufferSize = HeaderSize + NameBytesWithNul
        /\ os_calls[i].props.spare = os_calls[i].name

\* C20: at the start call and at the stop call the block has
\* LoggerNameOffset = header size and BufferSize = header size + name bytes
\* with NUL, which is the capacity of the buffer; the buffer holds the header
\* bytes only, and the room after them is not written by the program: it is
\* as allocated at the start call and holds the name the OS copied there at
\* the stop call.
C20_BlockHoldsHeaderAndRoom ==
    \A i \in BlockCalls :
        /\ os_calls[i].props.LoggerNameOffset = HeaderSize
        /\ os_calls[i].props.BufferSize = HeaderSize + NameBytesWithNul
        /\ os_calls[i].props.capacity = os_calls[i].props.BufferSize
        /\ os_calls[i].props.len = HeaderSize
        /\ os_calls[i].props.LogFileNameOffset = 0
        /\ os_calls[i].api = "StartTraceA" => os_calls[i].props.spare = "uninitialised"
        /\ os_calls[i].api = "ControlTraceA_STOP" => os_calls[i].props.spare = os_calls[i].name

\* The block was passed to a start call and later to a stop call.
C20_Witness ==
    /\ CallsOf("StartTraceA") # {}
    /\ CallsOf("ControlTraceA_STOP") # {}
    /\ controller.state = "dropped"

\* The pump call has been made and has not returned.
PumpCallRunning == pump \in {"running", "callback", "stopping"}

\* C21: the lifecycle calls are made in order: an open call is made only
\* after a start call that succeeded, the pump call only after an open
\* call, and the stop call and the close call are never issued while the
\* pump call is running: once the pump has been called they are issued only
\* after it has returned.
C21_LifecycleOrder ==
    /\ [](/\ \A j \in CallsOf("OpenTraceA") :
                \E i \in CallsOf("StartTraceA") : i < j /\ os_calls[i].status = "ERROR_SUCCESS"
          /\ \A k \in CallsOf("ProcessTrace") : \E j \in CallsOf("OpenTraceA") : j < k
          /\ \A t \in CallsOf("ControlTraceA_STOP") \cup CallsOf("CloseTrace") :
                \A k \in CallsOf("ProcessTrace") : k < t
          /\ PumpCallRunning => ~StopIssued /\ ~CloseIssued)
    /\ [][(Len(os_calls') = Len(os_calls) + 1
            /\ os_calls'[Len(os_calls')].api \in {"ControlTraceA_STOP", "CloseTrace"})
              => /\ ~PumpCallRunning
                 /\ CallsOf("ProcessTrace") # {} => pump = "returned"]_vars

\* Start, open, pump, stop and close were all called, in this order, and
\* the process has ended.
C21_Witness ==
    /\ proc = "exited"
    /\ Len(os_calls) = 5
    /\ os_calls[1].api = "StartTraceA"
    /\ os_calls[2].api = "OpenTraceA"
    /\ os_calls[3].api = "ProcessTrace"
    /\ os_calls[4].api = "ControlTraceA_STOP"
    /\ os_calls[5].api = "CloseTrace"

\* C22: a process that has ended, by returning from main, by a panic of the
\* main thread or by a failure inside the event callback, has asked the OS
\* to stop every session it started.
C22_StartedSessionIsStopped ==
    (proc \in {"exited", "aborted"} /\ start_status = "ERROR_SUCCESS") => StopIssued

\* What does hold: the session is stopped whenever the main thread runs to
\* its end, by return or by unwinding.
C22_StoppedWhenMainEnds ==
    (proc = "exited" /\ start_status = "ERROR_SUCCESS") => StopIssued

====
